---- MODULE Spec2Model ----
(***************************************************************************)
(* A model of the war2 "AEGIS" globe simulator: the App component's        *)
(* selection state and war simulation (src/unnamed/part_002, lines 1-351), *)
(* the HoloGlobe render loop, pointer handlers, marker pool and particle   *)
(* pool (src/unnamed/part_002, lines 352-847) and the text service with    *)
(* its offline fallback generator (src/unnamed/part_001).                  *)
(*                                                                         *)
(* Numbers that are IEEE doubles in the program are fixed-point integers   *)
(* here: angles in 1/10000 degree, marker progress in 1/100000, particle   *)
(* life in 1/2000, time in milliseconds.                                   *)
(*                                                                         *)
(* HoloGlobe reads the selection through warStateRef / isSimulatingRef,    *)
(* which effects copy from the props on every commit (part_002:396-403);   *)
(* the model reads warState and isSimulating directly.                     *)
(*                                                                         *)
(* The browser is part of the state: the fetch in flight, the animation    *)
(* frame requests that are pending and the DOM listeners that are          *)
(* registered.  A frame callback runs only for a pending request and a     *)
(* pointer handler only while its listener is registered.                  *)
(***************************************************************************)
EXTENDS Integers, Sequences, FiniteSets, TLC

VARIABLES
    warState,        \* App: {aggressor, defender, defenderAllies}
    isSelectingAlly, \* App: ally-selection mode
    isSimulating,    \* App: a war simulation is in flight
    logs,            \* App: the system log
    simCall,         \* the pending / settled simulateWarScenario call
    lastClicks,      \* the last two handleCountrySelect calls, oldest first
    rotation,        \* HoloGlobe: rotationRef  <<spin, tilt>>
    velocity,        \* HoloGlobe: velocityRef  <<spin, tilt>>
    isDragging,      \* HoloGlobe: isDraggingRef
    lastMouse,       \* HoloGlobe: lastMouseRef
    startDrag,       \* HoloGlobe: startDragRef
    missiles,        \* HoloGlobe: the marker pool
    particles,       \* HoloGlobe: the particle pool
    paths,           \* the conflict path list derived by the last frame
    drawn,           \* what the last frame did with each marker
    frame,           \* number of render() calls so far
    gesture,         \* the current / last pointer gesture: where it went down and
                     \* up, how it was classified, how many moves it had, and
                     \* the number of pointer events handled so far
    nextPid,         \* identity of the next particle object
    dtRun,           \* the dt of the last frame and the frame it has held since
    fbArgs,          \* arguments of the fallback generations under study
    fbReports,       \* reports generateMockWarLog produced for fbArgs
    radarData,       \* TacticalRadar: the stats its memo holds for both factions
    phase,           \* HoloGlobe: "unmounted", "mounted" or "torn down"
    worldData,       \* HoloGlobe: the worldData state is set
    fetchCalls,      \* number of fetch() calls issued
    fetchState,      \* the fetch promise chain: "idle", "pending",
                     \* "fulfilled" or "rejected"
    consoleErrors,   \* number of console.error calls
    animationId,     \* HoloGlobe: id of the last requestAnimationFrame
    pendingFrames,   \* browser: ids of the frame requests not yet run
    listeners        \* browser: event types with a registered handler

vars == << warState, isSelectingAlly, isSimulating, logs, simCall, lastClicks, rotation,
           velocity, isDragging, lastMouse, startDrag, missiles, particles,
           paths, drawn, frame, gesture, nextPid, dtRun, fbArgs, fbReports,
           radarData,
           phase, worldData, fetchCalls, fetchState, consoleErrors,
           animationId, pendingFrames, listeners >>

appVars == << warState, isSelectingAlly, isSimulating, logs, simCall, lastClicks >>
pointerVars == << isDragging, lastMouse, startDrag, gesture >>
poolVars == << missiles, particles, paths, drawn, frame, nextPid, dtRun >>
globeVars == << rotation, velocity, poolVars >>
fbVars == << fbArgs, fbReports, radarData >>
loadVars == << phase, worldData, fetchCalls, fetchState, consoleErrors >>
loopVars == << animationId, pendingFrames >>
lifeVars == << loadVars, loopVars, listeners >>

(***************************************************************************)
(* Bounds of the model.                                                    *)
(***************************************************************************)
NumTerritories == 3      \* territories of the world dataset
MaxLogs == 6             \* log entries after which Spec takes no click
MaxFrames == 2           \* render() calls in Spec, the one on load included
MaxSelectLogs == 9       \* log entries after which SpecSelect takes no click
NumAllyTerritories == 5  \* territories clicked in SpecAllies
MaxAllyLogs == 9         \* log entries after which SpecAllies takes no click
MaxWarLogs == 9          \* log entries after which SpecWar starts nothing
MaxRadarLogs == 5        \* log entries after which SpecRadar takes no click
MaxPointerFrames == 3    \* render() calls in SpecPointer
MaxPointerEvents == 4    \* pointer events handled in SpecPointer
MaxMarkerFrames == 17    \* render() calls in SpecMarker
MaxLifeFrames == 3       \* render() calls in SpecLife
MaxLifeEvents == 3       \* pointer events dispatched in SpecLife
MaxInertiaFrames == 110  \* render() calls in SpecInertia
MaxInertiaEvents == 3    \* pointer events handled in SpecInertia

None == 0
Territories == 1..NumTerritories

Min(a, b) == IF a < b THEN a ELSE b
Max(a, b) == IF a > b THEN a ELSE b
Abs(a) == IF a < 0 THEN -a ELSE a

(***************************************************************************)
(* App: log and selection state.                                           *)
(***************************************************************************)
INITIAL_LOGS ==
    << [type |-> "INFO", message |-> <<"AEGIS System initialized.">>],
       [type |-> "INFO", message |-> <<"Global satellite link established.">>],
       [type |-> "WARNING", message |-> <<"Warning: Energy spike in Sector 12.">>] >>

\* addLog: setLogs(prev => [...prev, newLog])
addLog(prev, message, type) ==
    Append(prev, [type |-> type, message |-> message])

InitialWarState ==
    [aggressor |-> None, defender |-> None, defenderAllies |-> << >>]

IsAlly(ws, c) == \E i \in 1..Len(ws.defenderAllies) : ws.defenderAllies[i] = c

\* Removal that moves the last ally into the place of the removed one.
RemoveAlly_SwapRemove(allies, c) ==
    LET n == Len(allies)
        i == CHOOSE k \in 1..n : allies[k] = c
    IN SubSeq([allies EXCEPT ![i] = allies[n]], 1, n - 1)

\* prev.defenderAllies.filter(a => a.id !== country.id)
RemoveAlly(allies, c) == SelectSeq(allies, LAMBDA a : a # c)

\* AllySelect without the test against the aggressor.
AllySelect_NoAggressorTest(prev, c) ==
    IF prev.defender = c \/ IsAlly(prev, c)
    THEN [ws |-> prev, mode |-> TRUE,
          log |-> [type |-> "WARNING", message |-> <<"Invalid Ally Selection", c>>]]
    ELSE [ws |-> [prev EXCEPT !.defenderAllies = Append(@, c)], mode |-> FALSE,
          log |-> [type |-> "INFO", message |-> <<"Ally added to coalition", c>>]]

\* AllySelect whose rejection also leaves ally-selection mode.
AllySelect_RejectLeavesMode(prev, c) ==
    IF prev.aggressor = c \/ prev.defender = c \/ IsAlly(prev, c)
    THEN [ws |-> prev, mode |-> FALSE,
          log |-> [type |-> "WARNING", message |-> <<"Invalid Ally Selection", c>>]]
    ELSE [ws |-> [prev EXCEPT !.defenderAllies = Append(@, c)], mode |-> FALSE,
          log |-> [type |-> "INFO", message |-> <<"Ally added to coalition", c>>]]

\* The ally-selection branch of the setWarState updater.
AllySelect(prev, c) ==
    IF prev.aggressor = c \/ prev.defender = c \/ IsAlly(prev, c)
    THEN [ws |-> prev, mode |-> TRUE,
          log |-> [type |-> "WARNING", message |-> <<"Invalid Ally Selection", c>>]]
    ELSE [ws |-> [prev EXCEPT !.defenderAllies = Append(@, c)], mode |-> FALSE,
          log |-> [type |-> "INFO", message |-> <<"Ally added to coalition", c>>]]

\* StandardSelect whose aggressor deselection also drops the coalition.
StandardSelect_DeselectDropsAllies(prev, c) ==
    IF prev.aggressor = c
    THEN [ws |-> [prev EXCEPT !.aggressor = None, !.defenderAllies = << >>],
          mode |-> FALSE,
          log |-> [type |-> "INFO", message |-> <<"Faction A deselected", c>>]]
    ELSE IF prev.defender = c
    THEN [ws |-> [prev EXCEPT !.defender = None, !.defenderAllies = << >>],
          mode |-> FALSE,
          log |-> [type |-> "INFO", message |-> <<"Faction B deselected", c>>]]
    ELSE IF IsAlly(prev, c)
    THEN [ws |-> [prev EXCEPT !.defenderAllies = RemoveAlly(@, c)], mode |-> FALSE,
          log |-> [type |-> "INFO", message |-> <<"Ally removed from coalition", c>>]]
    ELSE IF prev.aggressor = None
    THEN [ws |-> [prev EXCEPT !.aggressor = c], mode |-> FALSE,
          log |-> [type |-> "INFO", message |-> <<"Faction A selected", c>>]]
    ELSE IF prev.defender = None
    THEN [ws |-> [prev EXCEPT !.defender = c], mode |-> FALSE,
          log |-> [type |-> "INFO", message |-> <<"Faction B selected", c>>]]
    ELSE [ws |-> [aggressor |-> c, defender |-> None, defenderAllies |-> << >>],
          mode |-> FALSE,
          log |-> [type |-> "INFO", message |-> <<"Selection reset. Faction A", c>>]]

\* StandardSelect whose reset keeps the coalition of the old defender.
StandardSelect_ResetKeepsAllies(prev, c) ==
    IF prev.aggressor = c
    THEN [ws |-> [prev EXCEPT !.aggressor = None], mode |-> FALSE,
          log |-> [type |-> "INFO", message |-> <<"Faction A deselected", c>>]]
    ELSE IF prev.defender = c
    THEN [ws |-> [prev EXCEPT !.defender = None, !.defenderAllies = << >>],
          mode |-> FALSE,
          log |-> [type |-> "INFO", message |-> <<"Faction B deselected", c>>]]
    ELSE IF IsAlly(prev, c)
    THEN [ws |-> [prev EXCEPT !.defenderAllies = RemoveAlly(@, c)], mode |-> FALSE,
          log |-> [type |-> "INFO", message |-> <<"Ally removed from coalition", c>>]]
    ELSE IF prev.aggressor = None
    THEN [ws |-> [prev EXCEPT !.aggressor = c], mode |-> FALSE,
          log |-> [type |-> "INFO", message |-> <<"Faction A selected", c>>]]
    ELSE IF prev.defender = None
    THEN [ws |-> [prev EXCEPT !.defender = c], mode |-> FALSE,
          log |-> [type |-> "INFO", message |-> <<"Faction B selected", c>>]]
    ELSE [ws |-> [prev EXCEPT !.aggressor = c, !.defender = None],
          mode |-> FALSE,
          log |-> [type |-> "INFO", message |-> <<"Selection reset. Faction A", c>>]]

\* StandardSelect whose defender deselection keeps the coalition.
StandardSelect_DefenderKeepsAllies(prev, c) ==
    IF prev.aggressor = c
    THEN [ws |-> [prev EXCEPT !.aggressor = None], mode |-> FALSE,
          log |-> [type |-> "INFO", message |-> <<"Faction A deselected", c>>]]
    ELSE IF prev.defender = c
    THEN [ws |-> [prev EXCEPT !.defender = None],
          mode |-> FALSE,
          log |-> [type |-> "INFO", message |-> <<"Faction B deselected", c>>]]
    ELSE IF IsAlly(prev, c)
    THEN [ws |-> [prev EXCEPT !.defenderAllies = RemoveAlly(@, c)], mode |-> FALSE,
          log |-> [type |-> "INFO", message |-> <<"Ally removed from coalition", c>>]]
    ELSE IF prev.aggressor = None
    THEN [ws |-> [prev EXCEPT !.aggressor = c], mode |-> FALSE,
          log |-> [type |-> "INFO", message |-> <<"Faction A selected", c>>]]
    ELSE IF prev.defender = None
    THEN [ws |-> [prev EXCEPT !.defender = c], mode |-> FALSE,
          log |-> [type |-> "INFO", message |-> <<"Faction B selected", c>>]]
    ELSE [ws |-> [aggressor |-> c, defender |-> None, defenderAllies |-> << >>],
          mode |-> FALSE,
          log |-> [type |-> "INFO", message |-> <<"Selection reset. Faction A", c>>]]

\* The standard branch of the setWarState updater.
StandardSelect(prev, c) ==
    IF prev.aggressor = c
    THEN [ws |-> [prev EXCEPT !.aggressor = None], mode |-> FALSE,
          log |-> [type |-> "INFO", message |-> <<"Faction A deselected", c>>]]
    ELSE IF prev.defender = c
    THEN [ws |-> [prev EXCEPT !.defender = None, !.defenderAllies = << >>],
          mode |-> FALSE,
          log |-> [type |-> "INFO", message |-> <<"Faction B deselected", c>>]]
    ELSE IF IsAlly(prev, c)
    THEN [ws |-> [prev EXCEPT !.defenderAllies = RemoveAlly(@, c)], mode |-> FALSE,
          log |-> [type |-> "INFO", message |-> <<"Ally removed from coalition", c>>]]
    ELSE IF prev.aggressor = None
    THEN [ws |-> [prev EXCEPT !.aggressor = c], mode |-> FALSE,
          log |-> [type |-> "INFO", message |-> <<"Faction A selected", c>>]]
    ELSE IF prev.defender = None
    THEN [ws |-> [prev EXCEPT !.defender = c], mode |-> FALSE,
          log |-> [type |-> "INFO", message |-> <<"Faction B selected", c>>]]
    ELSE [ws |-> [aggressor |-> c, defender |-> None, defenderAllies |-> << >>],
          mode |-> FALSE,
          log |-> [type |-> "INFO", message |-> <<"Selection reset. Faction A", c>>]]

\* The updater of handleCountrySelect: the new selection, the new
\* ally-selection mode and the log entry it adds.
SelectResult(prev, selectingAlly, c) ==
    IF selectingAlly THEN AllySelect(prev, c) ELSE StandardSelect(prev, c)

\* The last two entries of a sequence.
LastTwo(q) == IF Len(q) <= 2 THEN q ELSE SubSeq(q, Len(q) - 1, Len(q))

\* handleCountrySelect(country), as a state change of the App.
handleCountrySelect(c) ==
    LET r == SelectResult(warState, isSelectingAlly, c) IN
    /\ warState' = r.ws
    /\ isSelectingAlly' = r.mode
    /\ logs' = addLog(logs, r.log.message, r.log.type)
    /\ lastClicks' = LastTwo(Append(lastClicks,
           [country |-> c, allyMode |-> isSelectingAlly, before |-> warState,
            after |-> r.ws]))
    /\ UNCHANGED << isSimulating, simCall >>

\* An ally button that is rendered whether or not a defender is set.
ToggleAllyMode_AlwaysRendered ==
    /\ isSelectingAlly' = ~isSelectingAlly
    /\ UNCHANGED << warState, isSimulating, logs, simCall, lastClicks >>

\* The "+ CALL ALLY" button, rendered only while a defender is set.
ToggleAllyMode ==
    /\ warState.defender # None
    /\ isSelectingAlly' = ~isSelectingAlly
    /\ UNCHANGED << warState, isSimulating, logs, simCall, lastClicks >>

(***************************************************************************)
(* Text service: hash-derived power score and the offline generator.       *)
(***************************************************************************)
RandDen == 4             \* Math.random() returns k / RandDen, k in 0..RandDen-1
RandomDraws == 0..(RandDen - 1)

\* properties.name of each territory, as UTF-16 code units.
NameTable ==
    << <<70, 105, 106, 105>>,      \* Fiji
       <<67, 104, 97, 100>>,       \* Chad
       <<80, 101, 114, 117>>,      \* Peru
       <<67, 117, 98, 97>>,        \* Cuba
       <<77, 97, 108, 105>>,       \* Mali
       <<84, 111, 103, 111>>,      \* Togo
       <<78, 111, 114, 119, 97, 121>>,     \* Norway
       <<82, 117, 115, 115, 105, 97>>,     \* Russia
       <<73, 114, 97, 110>>,               \* Iran
       <<71, 121, 100, 90, 71, 95>> >>     \* GydZG_
CountryName(c) == NameTable[((c - 1) % Len(NameTable)) + 1]

MinInt32 == -2147483647 - 1

\* Math.imul(31, h) + c | 0 for an int32 h and a code unit c, computed on
\* 16-bit halves so that no intermediate value leaves the int32 range.
Imul31Add(h, c) ==
    LET lo == h % 65536
        hi == (h \div 65536) % 65536
        t == 31 * lo + c
        lo2 == t % 65536
        hi2 == (31 * hi + (t \div 65536)) % 65536
    IN (IF hi2 >= 32768 THEN hi2 - 65536 ELSE hi2) * 65536 + lo2

\* h = Math.imul(31, h) + name.charCodeAt(i) | 0, over the whole name.
RECURSIVE HashFrom(_, _, _)
HashFrom(name, i, h) ==
    IF i > Len(name) THEN h
    ELSE HashFrom(name, i + 1, Imul31Add(h, name[i]))
NameHash(name) == HashFrom(name, 1, 0)

\* Math.abs(h) % n for an int32 h; Math.abs(-2^31) is 2^31, a double.
SeedMod(h, n) ==
    IF h = MinInt32 THEN ((2147483647 % n) + 1) % n ELSE Abs(h) % n

\* ToInt32(Math.abs(h)): the left operand of seed >> k.
SeedInt32(h) == IF h = MinInt32 THEN MinInt32 ELSE Abs(h)

\* x >> n for an int32 x: arithmetic shift.
Shr(x, n) == x \div (2 ^ n)

\* a % b of JavaScript: the remainder has the sign of the dividend.
JsRem(a, b) == IF a >= 0 THEN a % b ELSE -((-a) % b)

\* The score of a hash value (getPowerScore after its loop).
PowerOfHash(h) ==
    LET infantry == 40 + SeedMod(h, 60)
        armor == 40 + JsRem(Shr(SeedInt32(h), 2), 60)
        air == 40 + JsRem(Shr(SeedInt32(h), 4), 60)
        tech == 1 + SeedMod(h, 10)
    IN infantry + armor + air + (tech * 10)

getPowerScore(name) == PowerOfHash(NameHash(name))

\* The stats of a hash value (getCountryStats after its loop).
StatsOfHash(h) ==
    [infantry |-> 40 + SeedMod(h, 60),
     armor |-> 40 + JsRem(Shr(SeedInt32(h), 2), 60),
     air |-> 40 + JsRem(Shr(SeedInt32(h), 4), 60),
     cyber |-> 40 + JsRem(Shr(SeedInt32(h), 6), 60),
     logistics |-> 40 + JsRem(Shr(SeedInt32(h), 8), 60),
     intel |-> 40 + JsRem(Shr(SeedInt32(h), 10), 60),
     manpower |-> 50000 + SeedMod(h, 500000),
     techLevel |-> 1 + SeedMod(h, 10)]

getCountryStats(name) == StatsOfHash(NameHash(name))

\* The memo of TacticalRadar: the stats of each faction that is set, as a
\* sequence of at most one record.
TacticalRadar(ws) ==
    [statsA |-> IF ws.aggressor # None
                THEN << getCountryStats(CountryName(ws.aggressor)) >> ELSE << >>,
     statsB |-> IF ws.defender # None
                THEN << getCountryStats(CountryName(ws.defender)) >> ELSE << >>]

EXTERNAL_EVENTS ==
    << "trade embargo", "orbital blockade", "borders mobilized",
       "peacekeeping drones", "rogue cyber-attack", "mercenary fleets",
       "trade routes diverted" >>

BATTLE_TYPES ==
    << "Orbital Bombardment", "Cyber-Kinetic Hybrid Assault", "Amphibious Landing",
       "Guerrilla Drone Warfare", "High-Altitude Air Superiority",
       "Mech-Infantry Blitzkrieg" >>

\* Twice the sum over the allies of getPowerScore(ally) * 0.5.
RECURSIVE AlliesScore2(_)
AlliesScore2(allies) ==
    IF allies = << >> THEN 0
    ELSE getPowerScore(Head(allies)) + AlliesScore2(Tail(allies))

\* A winner drawn from the whole coalition: the last ally wins when the
\* aggressor does not.
Winner_FromCoalition(countryA, countryB, allies, k) ==
    LET scoreA2 == 2 * getPowerScore(countryA)
        total2 == scoreA2 + 2 * getPowerScore(countryB) + AlliesScore2(allies)
    IN IF k * total2 < scoreA2 * RandDen THEN countryA
       ELSE IF allies # << >> THEN allies[Len(allies)] ELSE countryB

\* winner = randomFactor < chanceA ? countryA : countryB, with
\* chanceA = total === 0 ? 0.5 : scoreA / total and randomFactor = k / RandDen;
\* all quantities are doubled to stay in the integers.
Winner(countryA, countryB, allies, k) ==
    LET scoreA2 == 2 * getPowerScore(countryA)
        total2 == scoreA2 + 2 * getPowerScore(countryB) + AlliesScore2(allies)
        below == IF total2 = 0 THEN 2 * k < RandDen
                 ELSE IF total2 > 0 THEN k * total2 < scoreA2 * RandDen
                 ELSE k * total2 > scoreA2 * RandDen
    IN IF below THEN countryA ELSE countryB

\* isCloseMatch = Math.abs(chanceA - 0.5) < 0.1
IsCloseMatch(countryA, countryB, allies) ==
    LET scoreA2 == 2 * getPowerScore(countryA)
        total2 == scoreA2 + 2 * getPowerScore(countryB) + AlliesScore2(allies)
    IN IF total2 = 0 THEN TRUE
       ELSE 5 * Abs(2 * scoreA2 - total2) < Abs(total2)

\* Math.floor(Math.random() * n) for Math.random() = k / RandDen.
RandomIndex(k, n) == (k * n) \div RandDen

\* generateMockWarLog: the report, line by line.  rnd holds the four
\* Math.random() results in call order: factor, event, battle, prob.
generateMockWarLog(countryA, countryB, allies, rnd) ==
    LET winner == Winner(countryA, countryB, allies, rnd.factor)
        loser == IF winner = countryA THEN countryB ELSE countryA
        isCloseMatch == IsCloseMatch(countryA, countryB, allies)
        event == EXTERNAL_EVENTS[RandomIndex(rnd.event, Len(EXTERNAL_EVENTS)) + 1]
        battleType == BATTLE_TYPES[RandomIndex(rnd.battle, Len(BATTLE_TYPES)) + 1]
        winProb == 55 + ((rnd.prob * 40) \div RandDen)
    IN << <<"*** SIMULATION REPORT (OFFLINE PROTOCOL) ***">>,
          <<"SCENARIO", countryA, countryB, allies>>,
          <<"THEATER OF WAR", battleType>>,
          IF isCloseMatch THEN <<"evenly matched">>
                          ELSE <<"tactical superiority", winner>>,
          IF Len(allies) > 0 THEN <<"intervention", allies>> ELSE <<"">>,
          <<"EXTERNAL INFLUENCE", event>>,
          <<"TACTICAL ANALYSIS", winner, loser, battleType>>,
          <<"VICTORY", winner>>,
          <<"CONFIDENCE", winProb>>,
          <<"retreat", loser>> >>

\* The line of a fallback report that declares the winner.
VictoryLine == 8
DeclaredWinner(report) == report[VictoryLine][2]

\* What ai.models.generateContent can do: throw, or answer with a text
\* (the empty text included).
AiText == << <<"BATTLE SIMULATION LOG">> >>
ApiOutcomes ==
    { [kind |-> "throw", text |-> << >>],
      [kind |-> "text", text |-> << >>],
      [kind |-> "text", text |-> AiText] }

\* simulateWarScenario without its catch block.
simulateWarScenario_NoCatch(countryA, countryB, allies, api, rnd) ==
    IF api.kind = "text" /\ api.text # << >>
    THEN [status |-> "resolved", value |-> api.text]
    ELSE [status |-> "rejected", value |-> << >>]

\* simulateWarScenario: how the promise settles.
simulateWarScenario(countryA, countryB, allies, api, rnd) ==
    IF api.kind = "text" /\ api.text # << >>
    THEN [status |-> "resolved", value |-> api.text]
    ELSE [status |-> "resolved",
          value |-> generateMockWarLog(countryA, countryB, allies, rnd)]

\* warState.defenderAllies.map(a => a.properties.name)
RECURSIVE AllyNames(_)
AllyNames(allies) ==
    IF allies = << >> THEN << >>
    ELSE << CountryName(Head(allies)) >> \o AllyNames(Tail(allies))

NoCall == [state |-> "none"]

\* triggerWarSimulation up to its await; the SIMULATE WAR button is disabled
\* while isSimulating or while a faction is missing.
triggerWarSimulation ==
    /\ warState.aggressor # None /\ warState.defender # None
    /\ LET nameA == CountryName(warState.aggressor)
           nameB == CountryName(warState.defender)
           allies == AllyNames(warState.defenderAllies)
       IN /\ simCall' = [state |-> "pending", nameA |-> nameA, nameB |-> nameB,
                         allies |-> allies]
          /\ logs' = addLog(addLog(logs,
                                   <<"INITIATING WAR SIMULATION", nameA, nameB, Len(allies)>>,
                                   "WARNING"),
                            <<"Calculating kinetic outcomes...">>, "INFO")
    /\ isSimulating' = TRUE
    /\ UNCHANGED << warState, isSelectingAlly, lastClicks >>

\* The continuation of triggerWarSimulation reading the selection of the
\* moment instead of the names it captured before the await.
settleWarSimulation_ReadsSelection(api, rnd) ==
    /\ simCall.state = "pending"
    /\ LET r == simulateWarScenario(CountryName(warState.aggressor),
                                    CountryName(warState.defender),
                                    AllyNames(warState.defenderAllies), api, rnd)
       IN /\ simCall' = [state |-> "settled", nameA |-> simCall.nameA,
                         nameB |-> simCall.nameB, allies |-> simCall.allies,
                         api |-> api, rnd |-> rnd, result |-> r]
          /\ IF r.status = "resolved"
             THEN /\ logs' = addLog(logs, r.value, "COMBAT")
                  /\ isSimulating' = FALSE
             ELSE UNCHANGED << logs, isSimulating >>
    /\ UNCHANGED << warState, isSelectingAlly, lastClicks >>

\* A SIMULATE WAR button that stays enabled while a simulation runs.
SimulateDisabled_IgnoresBusy ==
    warState.aggressor = None \/ warState.defender = None

\* disabled={isSimulating || !warState.aggressor || !warState.defender}
SimulateDisabled ==
    isSimulating \/ warState.aggressor = None \/ warState.defender = None

\* triggerWarSimulation after its await: simulateWarScenario has settled.
settleWarSimulation(api, rnd) ==
    /\ simCall.state = "pending"
    /\ LET r == simulateWarScenario(simCall.nameA, simCall.nameB, simCall.allies, api, rnd)
       IN /\ simCall' = [state |-> "settled", nameA |-> simCall.nameA,
                         nameB |-> simCall.nameB, allies |-> simCall.allies,
                         api |-> api, rnd |-> rnd, result |-> r]
          /\ IF r.status = "resolved"
             THEN /\ logs' = addLog(logs, r.value, "COMBAT")
                  /\ isSimulating' = FALSE
             ELSE UNCHANGED << logs, isSimulating >>
    /\ UNCHANGED << warState, isSelectingAlly, lastClicks >>

(***************************************************************************)
(* HoloGlobe: rotation physics, marker pool, particle pool, render().      *)
(***************************************************************************)
NUM_MISSILES == 20       \* for(let i=0; i<20; i++)
MAX_DT_MS == 100         \* Math.min((now - lastTime) / 1000, 0.1)
TILT_LIMIT == 450000     \* 45 degrees
CYCLE_LENGTH == 150000   \* (m.t + m.offset) % 1.5
CYCLE_VISIBLE == 100000  \* cycleT <= 1
SPAWN_AFTER == 95000     \* cycleT > 0.95
FULL_LIFE == 2000        \* life: 1.0
DECAY_PER_MS == 3        \* p.life -= dt * 1.5
IDLE_SPEED == 500        \* Math.abs(velocity[0]) < 0.05
DRAG_GAIN == 5000        \* dx * 0.5
CLICK_THRESHOLD == 15    \* dist < 15

MissileIds == 0..(NUM_MISSILES - 1)

\* a / b rounded toward zero, the fixed-point image of a double product.
TruncDiv(a, b) == IF a >= 0 THEN a \div b ELSE -((-a) \div b)

\* The values Math.random() takes in initMissiles, on a coarse grid.
InitT == << 0, 20000, 40000, 60000, 80000, 99000 >>
InitSpeed == << 20, 25, 30, 35, 39 >>
InitOffset == << 0, 25000, 50000, 75000, 99000 >>

\* initMissiles: the pool of 20 markers; seed picks the random values.
initMissiles(seed) ==
    [i \in MissileIds |->
        [t |-> InitT[((i + seed) % Len(InitT)) + 1],
         speed |-> InitSpeed[((2 * i + seed) % Len(InitSpeed)) + 1],
         offset |-> InitOffset[((3 * i + seed) % Len(InitOffset)) + 1],
         id |-> i,
         pathIndex |-> 0]]

\* d3.geoCentroid of each territory, <<lng, lat>> in whole degrees.
CentroidTable ==
    << <<178, -18>>, <<19, 15>>, <<-75, -9>>, <<-79, 22>>, <<-4, 17>>, <<1, 9>> >>
Centroid(c) == CentroidTable[((c - 1) % Len(CentroidTable)) + 1]

\* Counter-attack paths aimed at the ally itself instead of the aggressor.
CounterAttacks_Misaimed(allies, aggressor) ==
    [i \in 1..Len(allies) |->
        [start |-> Centroid(allies[i]), end |-> Centroid(allies[i]),
         color |-> "#22d3ee", type |-> "COUNTER_ATTACK"]]

\* The counter-attack paths, one per ally in list order.
RECURSIVE CounterAttacks(_, _)
CounterAttacks(allies, aggressor) ==
    IF allies = << >> THEN << >>
    ELSE << [start |-> Centroid(Head(allies)), end |-> Centroid(aggressor),
             color |-> "#22d3ee", type |-> "COUNTER_ATTACK"] >>
         \o CounterAttacks(Tail(allies), aggressor)

\* The paths array render() builds when the conflict is active.
ConflictPaths(ws) ==
    << [start |-> Centroid(ws.aggressor), end |-> Centroid(ws.defender),
        color |-> "#f97316", type |-> "AGGRESSION"] >>
    \o CounterAttacks(ws.defenderAllies, ws.aggressor)

\* The guard of the war-simulation layer of render().
ConflictActive(ws, simulating) ==
    ws.aggressor # None /\ ws.defender # None /\ simulating

\* dt without the cap.
FrameDt_Uncapped(gapMs) == gapMs

\* dt of a frame, in ms, from the wall-clock gap since the previous frame.
FrameDt(gapMs) == Min(gapMs, MAX_DT_MS)

\* Friction without the ramp back to the idle spin.
NextVelocity_NoIdleRamp(v) ==
    << TruncDiv(v[1] * 92, 100), TruncDiv(v[2] * 92, 100) >>

\* velocity after friction and the idle ramp (render, not dragging).
NextVelocity(v) ==
    LET v0 == TruncDiv(v[1] * 92, 100)
        v1 == TruncDiv(v[2] * 92, 100)
        spin == IF Abs(v0) < IDLE_SPEED THEN TruncDiv(v0 * 9, 10) + 50 ELSE v0
    IN << spin, v1 >>

\* rotation after a frame: inertia applied and tilt clamped unless dragging.
NextRotation(rot, v, dragging) ==
    IF dragging THEN rot
    ELSE LET nv == NextVelocity(v) IN
         << rot[1] + nv[1], Max(-TILT_LIMIT, Min(TILT_LIMIT, rot[2] + nv[2])) >>

\* m.t += m.speed * dt
AdvanceMissile(m, dt) == [m EXCEPT !.t = m.t + m.speed * dt]

\* cycleT = (m.t + m.offset) % 1.5
CycleT(m) == (m.t + m.offset) % CYCLE_LENGTH

\* Every marker on the path of its pathIndex placeholder, the first one.
AssignedPath_Placeholder(idx, ps) == 1

\* paths[idx % paths.length], as an index into the path sequence.
AssignedPath(idx, ps) == (idx % Len(ps)) + 1

\* Marker idx is drawn in this frame: it is in its visible phase and its
\* projected positions exist and lie inside the globe disc (idx \in visible).
Shown(m, idx, visible) ==
    /\ CycleT(m) <= CYCLE_VISIBLE
    /\ idx \in visible

\* Spawns without the test of the visible phase.
Spawns_InGap(m, idx, visible, lucky) ==
    /\ idx \in visible
    /\ CycleT(m) > SPAWN_AFTER
    /\ idx \in lucky

\* Spawns without the test of the projected position.
Spawns_OutOfView(m, idx, visible, lucky) ==
    /\ CycleT(m) <= CYCLE_VISIBLE
    /\ CycleT(m) > SPAWN_AFTER
    /\ idx \in lucky

\* Marker idx pushes a particle in this frame: it is drawn, it is near the
\* end of its path, Math.random() < 0.3 and the end of its path projects
\* (idx \in lucky stands for the last two).
Spawns(m, idx, visible, lucky) ==
    /\ CycleT(m) <= CYCLE_VISIBLE
    /\ idx \in visible
    /\ CycleT(m) > SPAWN_AFTER
    /\ idx \in lucky

\* What a frame did with each marker: the path it was put on, its cycleT,
\* whether its projected position was in view, whether the jet was drawn
\* and whether it pushed a particle.
Undrawn ==
    [path |-> 0, cycleT |-> 0, inView |-> FALSE, shown |-> FALSE, spawned |-> FALSE]
DrawRecord(ms, ps, visible, lucky) ==
    [i \in MissileIds |->
        [path |-> AssignedPath(i, ps), cycleT |-> CycleT(ms[i]),
         inView |-> i \in visible,
         shown |-> Shown(ms[i], i, visible),
         spawned |-> Spawns(ms[i], i, visible, lucky)]]

\* The particles pushed by markers idx..19, in marker order; pid is the
\* identity of the next particle object and f the number of this frame.
RECURSIVE SpawnFrom(_, _, _, _, _, _, _)
SpawnFrom(ms, ps, idx, visible, lucky, pid, f) ==
    IF idx >= NUM_MISSILES THEN << >>
    ELSE IF Spawns(ms[idx], idx, visible, lucky)
    THEN << [id |-> pid, life |-> FULL_LIFE, maxLife |-> FULL_LIFE,
             at |-> ps[AssignedPath(idx, ps)].end,
             color |-> ps[AssignedPath(idx, ps)].color,
             by |-> idx, born |-> f] >>
         \o SpawnFrom(ms, ps, idx + 1, visible, lucky, pid + 1, f)
    ELSE SpawnFrom(ms, ps, idx + 1, visible, lucky, pid, f)

\* p.life -= dt * 1.5
DecayParticle(p, dt) == [p EXCEPT !.life = p.life - DECAY_PER_MS * dt]

\* The particle loop: decay every particle, splice out the dead ones.
RECURSIVE DecayAll(_, _)
DecayAll(pool, dt) ==
    IF pool = << >> THEN << >>
    ELSE LET p == DecayParticle(Head(pool), dt) IN
         (IF p.life <= 0 THEN << >> ELSE << p >>) \o DecayAll(Tail(pool), dt)

\* What one call of render() does to the globe, on the pools pool and parts:
\* gapMs is now - lastTime; visible and lucky are the outcomes of the
\* projection tests and of Math.random() < 0.3.
renderFrom(pool, parts, gapMs, visible, lucky) ==
    LET dt == FrameDt(gapMs) IN
    /\ velocity' = IF isDragging THEN velocity ELSE NextVelocity(velocity)
    /\ rotation' = NextRotation(rotation, velocity, isDragging)
    /\ frame' = frame + 1
    /\ IF ConflictActive(warState, isSimulating)
       THEN LET ps == ConflictPaths(warState)
                ms == [i \in MissileIds |-> AdvanceMissile(pool[i], dt)]
                born == SpawnFrom(ms, ps, 0, visible, lucky, nextPid, frame + 1)
            IN /\ paths' = ps
               /\ missiles' = ms
               /\ drawn' = DrawRecord(ms, ps, visible, lucky)
               /\ particles' = DecayAll(parts \o born, dt)
               /\ nextPid' = nextPid + Len(born)
       ELSE /\ paths' = << >>
            /\ missiles' = pool
            /\ drawn' = [i \in MissileIds |-> Undrawn]
            /\ particles' = parts
            /\ nextPid' = nextPid
    /\ dtRun' = IF dtRun.dt = dt THEN [dtRun EXCEPT !.gap = gapMs]
                 ELSE [dt |-> dt, since |-> frame + 1, gap |-> gapMs]
    /\ UNCHANGED << isDragging, lastMouse, startDrag, gesture >>

\* render() on the pools of the running loop.
renderGlobe(gapMs, visible, lucky) ==
    renderFrom(missiles, particles, gapMs, visible, lucky)

\* animationId = requestAnimationFrame(render), in the callback of a
\* pending request: that request is used up and a new one is pending.
requestNextFrame ==
    /\ \E r \in pendingFrames :
          pendingFrames' = (pendingFrames \ { r }) \cup { animationId + 1 }
    /\ animationId' = animationId + 1
    /\ UNCHANGED << loadVars, listeners >>

\* A render() that drops the coalition once the conflict is drawn.
render_DropsAllies(gapMs, visible, lucky) ==
    /\ renderGlobe(gapMs, visible, lucky)
    /\ requestNextFrame
    /\ warState' = IF ConflictActive(warState, isSimulating)
                   THEN [warState EXCEPT !.defenderAllies = << >>]
                   ELSE warState
    /\ UNCHANGED << isSelectingAlly, isSimulating, logs, simCall, lastClicks >>

\* render() as a frame callback; it reads warStateRef and isSimulatingRef
\* and writes neither.
render(gapMs, visible, lucky) ==
    /\ renderGlobe(gapMs, visible, lucky)
    /\ requestNextFrame
    /\ UNCHANGED appVars

\* handleMouseDown without the reset of velocityRef.
handleMouseDown_KeepsInertia(x, y) ==
    /\ isDragging' = TRUE
    /\ lastMouse' = << x, y >>
    /\ startDrag' = << x, y >>
    /\ gesture' = [kind |-> "down", down |-> << x, y >>, up |-> << x, y >>,
                   inverted |-> FALSE, containing |-> {},
                   hit |-> None, moves |-> 0, n |-> gesture.n + 1]
    /\ UNCHANGED << rotation, velocity, poolVars >>
    /\ UNCHANGED << appVars, lifeVars >>

\* handleMouseDown on the canvas.
handleMouseDown(x, y) ==
    /\ isDragging' = TRUE
    /\ velocity' = << 0, 0 >>
    /\ lastMouse' = << x, y >>
    /\ startDrag' = << x, y >>
    /\ gesture' = [kind |-> "down", down |-> << x, y >>, up |-> << x, y >>,
                   inverted |-> FALSE, containing |-> {},
                   hit |-> None, moves |-> 0, n |-> gesture.n + 1]
    /\ UNCHANGED << rotation, poolVars >>
    /\ UNCHANGED << appVars, lifeVars >>

\* handleMouseMove on the window.
handleMouseMove(x, y) ==
    /\ IF isDragging
       THEN LET dx == x - lastMouse[1]
                dy == y - lastMouse[2]
            IN /\ rotation' = << rotation[1] + dx * DRAG_GAIN,
                                 rotation[2] - dy * DRAG_GAIN >>
               /\ velocity' = << dx * DRAG_GAIN, -(dy * DRAG_GAIN) >>
               /\ lastMouse' = << x, y >>
               /\ gesture' = [gesture EXCEPT !.moves = Min(@ + 1, 2), !.n = @ + 1]
       ELSE UNCHANGED << rotation, velocity, lastMouse, gesture >>
    /\ UNCHANGED << isDragging, startDrag, poolVars >>
    /\ UNCHANGED << appVars, lifeVars >>

\* Math.floor(Math.sqrt(n)) for n >= 0.
RECURSIVE SqrtBits(_, _, _)
SqrtBits(n, bit, r) ==
    IF bit = 0 THEN r
    ELSE IF (r + bit) * (r + bit) <= n THEN SqrtBits(n, bit \div 2, r + bit)
    ELSE SqrtBits(n, bit \div 2, r)
SqrtFloor(n) == SqrtBits(n, 16384, 0)

\* The click test with the boundary included.
IsClick_Inclusive(a, b) ==
    SqrtFloor((b[1] - a[1]) * (b[1] - a[1]) + (b[2] - a[2]) * (b[2] - a[2]))
        <= CLICK_THRESHOLD

\* dist < 15 for the pointer-down position a and the pointer-up position b;
\* sqrt(n) < 15 exactly when floor(sqrt(n)) < 15.
IsClick(a, b) ==
    SqrtFloor((b[1] - a[1]) * (b[1] - a[1]) + (b[2] - a[2]) * (b[2] - a[2]))
        < CLICK_THRESHOLD

\* worldData.features.find(f => d3.geoContains(f, inverted)) keeping the
\* last match instead of the first.
FindFeature_Last(containing) ==
    IF containing = {} THEN None
    ELSE CHOOSE c \in containing : \A d \in containing : d <= c

\* worldData.features.find(f => d3.geoContains(f, inverted)): the features
\* are the territories in dataset order, containing the ones for which
\* d3.geoContains is true; None stands for undefined.
FindFeature(containing) ==
    IF containing = {} THEN None
    ELSE CHOOSE c \in containing : \A d \in containing : c <= d

\* The hit test of handleMouseUp: inverted tells whether projection.invert
\* returned a point.
HitTest(inverted, containing) ==
    IF inverted THEN FindFeature(containing) ELSE None

\* handleMouseUp without its test of isDraggingRef.
handleMouseUp_NoDragTest(x, y, inverted, containing) ==
    /\ isDragging' = FALSE
    /\ IF IsClick(startDrag, << x, y >>)
       THEN LET clickedCountry == HitTest(inverted, containing) IN
            /\ gesture' = [gesture EXCEPT !.kind = "click", !.up = << x, y >>,
                                           !.inverted = inverted,
                                           !.containing = containing,
                                           !.hit = clickedCountry, !.n = @ + 1]
            /\ IF clickedCountry # None
               THEN handleCountrySelect(clickedCountry)
               ELSE UNCHANGED appVars
       ELSE /\ gesture' = [gesture EXCEPT !.kind = "drag", !.up = << x, y >>,
                                           !.n = @ + 1]
            /\ UNCHANGED appVars
    /\ UNCHANGED << rotation, velocity, lastMouse, startDrag, poolVars, lifeVars >>

\* handleMouseUp on the window; inverted and containing are the outcomes of
\* projection.invert and of d3.geoContains for the pointer position.
handleMouseUp(x, y, inverted, containing) ==
    /\ IF isDragging
       THEN /\ isDragging' = FALSE
            /\ IF IsClick(startDrag, << x, y >>)
               THEN LET clickedCountry == HitTest(inverted, containing) IN
                    /\ gesture' = [gesture EXCEPT !.kind = "click", !.up = << x, y >>,
                                                   !.inverted = inverted,
                                                   !.containing = containing,
                                                   !.hit = clickedCountry, !.n = @ + 1]
                    /\ IF clickedCountry # None
                       THEN handleCountrySelect(clickedCountry)
                       ELSE UNCHANGED appVars
               ELSE /\ gesture' = [gesture EXCEPT !.kind = "drag", !.up = << x, y >>,
                                                   !.n = @ + 1]
                    /\ UNCHANGED appVars
       ELSE UNCHANGED << isDragging, gesture, appVars >>
    /\ UNCHANGED << rotation, velocity, lastMouse, startDrag, poolVars, lifeVars >>

(***************************************************************************)
(* Fallback generations studied side by side.                              *)
(***************************************************************************)
NoArgs == [countryA |-> << >>, countryB |-> << >>, allies |-> << >>]

\* The four Math.random() results of one generateMockWarLog call.
RandomQuads ==
    [factor : RandomDraws, event : RandomDraws, battle : RandomDraws,
     prob : RandomDraws]
\* The quadruples the specifications draw from.
SomeQuads == { r \in RandomQuads : r.battle = r.event /\ r.prob = r.event }
FewQuads == { r \in SomeQuads : r.event = 0 }

\* Fix the arguments of the generations that follow.
FallbackBegin(a, b, allies) ==
    /\ fbArgs' = [countryA |-> CountryName(a), countryB |-> CountryName(b),
                  allies |-> AllyNames(allies)]
    /\ fbReports' = << >>
    /\ UNCHANGED radarData

\* One more generateMockWarLog call with the fixed arguments.
FallbackGenerate(rnd) ==
    /\ fbArgs # NoArgs
    /\ Len(fbReports) < 2
    /\ fbReports' = Append(fbReports,
           generateMockWarLog(fbArgs.countryA, fbArgs.countryB, fbArgs.allies, rnd))
    /\ UNCHANGED << fbArgs, radarData >>

(***************************************************************************)
(* HoloGlobe life cycle: mount, world data fetch, graphics effect, cleanup. *)
(***************************************************************************)
INITIAL_ROTATION == << 0, -200000 >>    \* useRef([0, -20])
INITIAL_VELOCITY == << 200, 0 >>        \* useRef([0.02, 0])
GLOBE_LISTENERS == { "mousedown", "mousemove", "mouseup" }

\* The graphics effect without its test of worldData.
graphicsEffect_NoGeometryGuard(loaded, context, seed, visible, lucky) ==
    IF context
    THEN /\ renderFrom(initMissiles(seed), << >>, 0, visible, lucky)
         /\ animationId' = animationId + 1
         /\ pendingFrames' = pendingFrames \cup { animationId + 1 }
         /\ listeners' = listeners \cup GLOBE_LISTENERS
    ELSE UNCHANGED << pointerVars, globeVars, loopVars, listeners >>

\* The graphics effect: it returns at once unless worldData is set (loaded)
\* and the canvas gives a 2d context; otherwise it seeds the marker pool,
\* calls render() once (lastTime was read just before, so the gap is 0) and
\* registers the three listeners.
graphicsEffect(loaded, context, seed, visible, lucky) ==
    IF loaded /\ context
    THEN /\ renderFrom(initMissiles(seed), << >>, 0, visible, lucky)
         /\ animationId' = animationId + 1
         /\ pendingFrames' = pendingFrames \cup { animationId + 1 }
         /\ listeners' = listeners \cup GLOBE_LISTENERS
    ELSE UNCHANGED << pointerVars, globeVars, loopVars, listeners >>

\* The first commit of HoloGlobe: the load effect issues the fetch and the
\* graphics effect runs with worldData still null.
mountHoloGlobe(context, seed) ==
    /\ phase = "unmounted"
    /\ phase' = "mounted"
    /\ fetchCalls' = fetchCalls + 1
    /\ fetchState' = "pending"
    /\ graphicsEffect(worldData, context, seed, {}, {})
    /\ UNCHANGED << appVars, fbVars, worldData, consoleErrors >>

\* The fetch chain fulfils: setWorldData(countries); the commit that follows
\* runs the graphics effect.  A torn-down component ignores the update.
fetchFulfilled(context, seed, visible, lucky) ==
    /\ fetchState = "pending"
    /\ fetchState' = "fulfilled"
    /\ IF phase = "mounted"
       THEN /\ worldData' = TRUE
            /\ graphicsEffect(TRUE, context, seed, visible, lucky)
       ELSE UNCHANGED << worldData, pointerVars, globeVars, loopVars, listeners >>
    /\ UNCHANGED << appVars, fbVars, phase, fetchCalls, consoleErrors >>

\* The fetch chain rejects: .catch(err => console.error(...)).
fetchRejected ==
    /\ fetchState = "pending"
    /\ fetchState' = "rejected"
    /\ consoleErrors' = consoleErrors + 1
    /\ UNCHANGED << appVars, pointerVars, globeVars, fbVars, phase, worldData,
                    fetchCalls, loopVars, listeners >>

\* A cleanup that leaves the frame request pending.
cleanup_KeepsFrameRequest ==
    /\ phase = "mounted"
    /\ phase' = "torn down"
    /\ IF animationId # None
       THEN listeners' = listeners \ GLOBE_LISTENERS
       ELSE UNCHANGED listeners
    /\ UNCHANGED << appVars, pointerVars, globeVars, fbVars, worldData,
                    fetchCalls, fetchState, consoleErrors, loopVars >>

\* Unmount: the cleanup returned by the graphics effect, if the effect got
\* that far (animationId is assigned exactly then).
cleanup ==
    /\ phase = "mounted"
    /\ phase' = "torn down"
    /\ IF animationId # None
       THEN /\ pendingFrames' = pendingFrames \ { animationId }
            /\ listeners' = listeners \ GLOBE_LISTENERS
       ELSE UNCHANGED << pendingFrames, listeners >>
    /\ UNCHANGED << appVars, pointerVars, globeVars, fbVars, worldData,
                    fetchCalls, fetchState, consoleErrors, animationId >>

(***************************************************************************)
(* Initial state: App mounted, world data loaded, graphics effect run (the *)
(* first render() made, the frame request pending, listeners registered).  *)
(***************************************************************************)
AppInit ==
    /\ warState = InitialWarState
    /\ isSelectingAlly = FALSE
    /\ isSimulating = FALSE
    /\ logs = INITIAL_LOGS
    /\ simCall = NoCall
    /\ lastClicks = << >>

\* The refs and ghosts as HoloGlobe constructs them.
RefsInit ==
    /\ isDragging = FALSE
    /\ lastMouse = << 0, 0 >>
    /\ startDrag = << 0, 0 >>
    /\ gesture = [kind |-> "none", down |-> << 0, 0 >>, up |-> << 0, 0 >>,
                  inverted |-> FALSE, containing |-> {},
                  hit |-> None, moves |-> 0, n |-> 0]
    /\ nextPid = 1

GlobeInit(seeds) ==
    /\ rotation = NextRotation(INITIAL_ROTATION, INITIAL_VELOCITY, FALSE)
    /\ velocity = NextVelocity(INITIAL_VELOCITY)
    /\ RefsInit
    /\ \E seed \in seeds : missiles = initMissiles(seed)
    /\ particles = << >>
    /\ paths = << >>
    /\ drawn = [i \in MissileIds |-> Undrawn]
    /\ frame = 1
    /\ dtRun = [dt |-> 0, since |-> 1, gap |-> 0]
    /\ phase = "mounted"
    /\ worldData = TRUE
    /\ fetchCalls = 1
    /\ fetchState = "fulfilled"
    /\ consoleErrors = 0
    /\ animationId = 1
    /\ pendingFrames = { 1 }
    /\ listeners = GLOBE_LISTENERS

FallbackInit ==
    /\ fbArgs = NoArgs
    /\ fbReports = << >>
    /\ radarData = TacticalRadar(InitialWarState)

Init == AppInit /\ GlobeInit({ 0 }) /\ FallbackInit

(***************************************************************************)
(* Spec: the App and the render loop; a resolved click stands for the      *)
(* whole pointer gesture.                                                  *)
(***************************************************************************)
GapsMs == { 16, 100, 250 }
AllVisible == MissileIds

ResolvedClick ==
    /\ Len(logs) < MaxLogs
    /\ \E c \in Territories : handleCountrySelect(c)
    /\ UNCHANGED << pointerVars, globeVars, fbVars, lifeVars >>

AllyButton ==
    /\ ToggleAllyMode
    /\ UNCHANGED << pointerVars, globeVars, fbVars, lifeVars >>

SimulateButton ==
    /\ ~SimulateDisabled
    /\ Len(logs) <= MaxLogs
    /\ triggerWarSimulation
    /\ UNCHANGED << pointerVars, globeVars, fbVars, lifeVars >>

SimulationSettles ==
    /\ \E api \in ApiOutcomes, rnd \in FewQuads : settleWarSimulation(api, rnd)
    /\ UNCHANGED << pointerVars, globeVars, fbVars, lifeVars >>

Frame ==
    /\ frame < MaxFrames
    /\ \E gap \in { 100 }, lucky \in { {}, MissileIds } :
          render(gap, AllVisible, lucky)
    /\ UNCHANGED fbVars

Next ==
    \/ ResolvedClick
    \/ AllyButton
    \/ SimulateButton
    \/ SimulationSettles
    \/ Frame

Spec == Init /\ [][Next]_vars

(***************************************************************************)
(* SpecSelect: the selection state under clicks and ally-mode toggles.     *)
(***************************************************************************)
SelectClick ==
    /\ Len(logs) < MaxSelectLogs
    /\ \E c \in Territories : handleCountrySelect(c)
    /\ UNCHANGED << pointerVars, globeVars, fbVars, lifeVars >>

SelectAllyButton ==
    /\ ToggleAllyMode
    /\ UNCHANGED << pointerVars, globeVars, fbVars, lifeVars >>

NextSelect ==
    \/ SelectClick
    \/ SelectAllyButton

SpecSelect == Init /\ [][NextSelect]_vars

----------------------------------------------------------------------------
\* SpecAllies: the coalition.  Both factions have been picked by two clicks
\* (territory 1, then territory 2); the user then clicks among a larger set
\* of territories and presses the ally button.

\* The App after the clicks on territory 1 and on territory 2.
PairPicked ==
    LET r1 == StandardSelect(InitialWarState, 1)
        r2 == StandardSelect(r1.ws, 2)
    IN [ws |-> r2.ws,
        logs |-> addLog(addLog(INITIAL_LOGS, r1.log.message, r1.log.type),
                        r2.log.message, r2.log.type),
        clicks |-> << [country |-> 1, allyMode |-> FALSE,
                       before |-> InitialWarState, after |-> r1.ws],
                      [country |-> 2, allyMode |-> FALSE,
                       before |-> r1.ws, after |-> r2.ws] >>]

AlliesInit ==
    /\ warState = PairPicked.ws
    /\ isSelectingAlly = FALSE
    /\ isSimulating = FALSE
    /\ logs = PairPicked.logs
    /\ simCall = NoCall
    /\ lastClicks = PairPicked.clicks
    /\ GlobeInit({ 0 })
    /\ FallbackInit

AllyClick ==
    /\ Len(logs) < MaxAllyLogs
    /\ \E c \in 1..NumAllyTerritories : handleCountrySelect(c)
    /\ UNCHANGED << pointerVars, globeVars, fbVars, lifeVars >>

CoalitionButton ==
    /\ ToggleAllyMode
    /\ UNCHANGED << pointerVars, globeVars, fbVars, lifeVars >>

NextAllies ==
    \/ AllyClick
    \/ CoalitionButton

SpecAllies == AlliesInit /\ [][NextAllies]_vars

----------------------------------------------------------------------------
\* SpecWar: simulations.  Both factions have been picked; the user clicks
\* territories, calls allies and presses SIMULATE WAR while the text
\* endpoint answers, answers with nothing, or fails.

WarClick ==
    /\ Len(logs) < MaxWarLogs
    /\ \E c \in Territories : handleCountrySelect(c)
    /\ UNCHANGED << pointerVars, globeVars, fbVars, lifeVars >>

WarAllyButton ==
    /\ ToggleAllyMode
    /\ UNCHANGED << pointerVars, globeVars, fbVars, lifeVars >>

WarSimulate ==
    /\ ~SimulateDisabled
    /\ Len(logs) < MaxWarLogs
    /\ triggerWarSimulation
    /\ UNCHANGED << pointerVars, globeVars, fbVars, lifeVars >>

WarSettlesWith(api, rnd) ==
    /\ settleWarSimulation(api, rnd)
    /\ UNCHANGED << pointerVars, globeVars, fbVars, lifeVars >>

WarSettles == \E api \in ApiOutcomes, rnd \in FewQuads : WarSettlesWith(api, rnd)

NextWar ==
    \/ WarClick
    \/ WarAllyButton
    \/ WarSimulate
    \/ WarSettles

SpecWar == AlliesInit /\ [][NextWar]_vars

\* The pending promise of simulateWarScenario settles: the request to the
\* text endpoint ends in an answer or in an error.  Every way of settling
\* is enabled exactly while the call is pending and any of them ends that,
\* so weak fairness on one of them is weak fairness on WarSettles.
SpecWarFair ==
    SpecWar /\ WF_vars(WarSettlesWith([kind |-> "text", text |-> AiText],
                                      CHOOSE rnd \in FewQuads : TRUE))

(***************************************************************************)
(* SpecPointer: pointer gestures on the globe, interleaved with frames.    *)
(***************************************************************************)
Points == { << 0, 0 >>, << 14, 0 >>, << 9, 12 >>, << 16, 0 >>, << 0, 60 >> }

\* Outcomes of the hit test: the point does not invert, or it inverts and
\* lies in no territory, in one, or in several overlapping ones.
HitOutcomes ==
    { [inverted |-> FALSE, containing |-> {}], [inverted |-> TRUE, containing |-> {}] }
    \cup { [inverted |-> TRUE, containing |-> c..NumTerritories] : c \in Territories }

PointerDown ==
    /\ gesture.n < MaxPointerEvents
    /\ \E p \in Points : handleMouseDown(p[1], p[2])
    /\ UNCHANGED fbVars

PointerMove ==
    /\ gesture.n < MaxPointerEvents
    /\ \E p \in Points : handleMouseMove(p[1], p[2])
    /\ UNCHANGED fbVars

PointerUp ==
    /\ gesture.n < MaxPointerEvents
    /\ \E p \in Points, h \in HitOutcomes :
          handleMouseUp(p[1], p[2], h.inverted, h.containing)
    /\ UNCHANGED fbVars

PointerFrame ==
    /\ frame < MaxPointerFrames
    /\ render(100, AllVisible, {})
    /\ UNCHANGED fbVars

NextPointer ==
    \/ PointerDown
    \/ PointerMove
    \/ PointerUp
    \/ PointerFrame

SpecPointer == Init /\ [][NextPointer]_vars

(***************************************************************************)
(* SpecMarker: the marker and particle pools while a simulation runs.  The *)
(* initial state is the one reached by clicking territory 1, territory 2,  *)
(* optionally calling territory 3 as an ally, and pressing SIMULATE WAR.   *)
(***************************************************************************)
MarkerSelections ==
    LET two == StandardSelect(StandardSelect(InitialWarState, 1).ws, 2).ws
    IN { two, AllySelect(two, 3).ws }

MarkerInit ==
    /\ warState \in MarkerSelections
    /\ isSelectingAlly = FALSE
    /\ isSimulating = TRUE
    /\ logs = INITIAL_LOGS
    /\ simCall = [state |-> "pending", nameA |-> CountryName(warState.aggressor),
                  nameB |-> CountryName(warState.defender),
                  allies |-> AllyNames(warState.defenderAllies)]
    /\ lastClicks = << >>
    /\ GlobeInit({ 0, 1 })
    /\ FallbackInit

\* The markers on the near side of the globe when only part of every path
\* is in view.
NearSide == { i \in MissileIds : i % 3 # 1 }

\* The frames of SpecMarker: on time with every marker in view, or late
\* with part of them out of view; no marker or every marker lucky.
MarkerFrameInputs ==
    { [gap |-> 100, visible |-> AllVisible], [gap |-> 250, visible |-> NearSide] }

MarkerFrame ==
    /\ frame < MaxMarkerFrames
    /\ \E in \in MarkerFrameInputs, lucky \in { {}, MissileIds } :
          render(in.gap, in.visible, lucky)
    /\ UNCHANGED fbVars

MarkerSettles ==
    /\ settleWarSimulation([kind |-> "text", text |-> AiText],
                           [factor |-> 0, event |-> 0, battle |-> 0, prob |-> 0])
    /\ UNCHANGED << pointerVars, globeVars, fbVars, lifeVars >>

\* A click, in standard mode, on the first ally: it leaves the coalition.
MarkerAllyLeaves ==
    /\ warState.defenderAllies # << >>
    /\ ~isSelectingAlly
    /\ handleCountrySelect(warState.defenderAllies[1])
    /\ UNCHANGED << pointerVars, globeVars, fbVars, lifeVars >>

NextMarker ==
    \/ MarkerFrame
    \/ MarkerSettles
    \/ MarkerAllyLeaves

SpecMarker == MarkerInit /\ [][NextMarker]_vars

(***************************************************************************)
(* SpecLife: the life of one HoloGlobe instance, from before its mount to  *)
(* after its cleanup, with the browser delivering frame callbacks and      *)
(* pointer events throughout.                                              *)
(***************************************************************************)
LifePoints == { << 0, 0 >>, << 0, 60 >> }

\* The browser dispatches an event: the handler runs if it is registered.
dispatchEvent(type, handler) ==
    IF type \in listeners THEN handler ELSE UNCHANGED vars

LifeInit ==
    /\ AppInit
    /\ FallbackInit
    /\ RefsInit
    /\ rotation = INITIAL_ROTATION
    /\ velocity = INITIAL_VELOCITY
    /\ missiles = << >>
    /\ particles = << >>
    /\ paths = << >>
    /\ drawn = << >>
    /\ frame = 0
    /\ dtRun = [dt |-> 0, since |-> 0, gap |-> 0]
    /\ phase = "unmounted"
    /\ worldData = FALSE
    /\ fetchCalls = 0
    /\ fetchState = "idle"
    /\ consoleErrors = 0
    /\ animationId = None
    /\ pendingFrames = {}
    /\ listeners = {}

LifeMount ==
    \E context \in BOOLEAN : mountHoloGlobe(context, 0)

LifeLoaded ==
    \E context \in BOOLEAN : fetchFulfilled(context, 0, AllVisible, {})

LifeLoadFails ==
    fetchRejected

LifeUnmount ==
    cleanup

LifeFrame ==
    /\ frame < MaxLifeFrames
    /\ render(100, AllVisible, {})
    /\ UNCHANGED fbVars

LifeDown ==
    /\ gesture.n < MaxLifeEvents
    /\ \E p \in LifePoints : dispatchEvent("mousedown", handleMouseDown(p[1], p[2]))
    /\ UNCHANGED fbVars

LifeMove ==
    /\ gesture.n < MaxLifeEvents
    /\ \E p \in LifePoints : dispatchEvent("mousemove", handleMouseMove(p[1], p[2]))
    /\ UNCHANGED fbVars

LifeUp ==
    /\ gesture.n < MaxLifeEvents
    /\ \E p \in LifePoints, h \in HitOutcomes :
          dispatchEvent("mouseup", handleMouseUp(p[1], p[2], h.inverted, h.containing))
    /\ UNCHANGED fbVars

NextLife ==
    \/ LifeMount
    \/ LifeLoaded
    \/ LifeLoadFails
    \/ LifeUnmount
    \/ LifeFrame
    \/ LifeDown
    \/ LifeMove
    \/ LifeUp

SpecLife == LifeInit /\ [][NextLife]_vars

(***************************************************************************)
(* SpecInertia: one pointer gesture, then frames with no further input.    *)
(* The frames before the release are left out: handleMouseDown zeroes the  *)
(* velocity and the last handleMouseMove sets it, so they do not bear on   *)
(* the velocity the release leaves behind.  SpecInertiaFair adds that the  *)
(* browser keeps running the pending frame request.                        *)
(***************************************************************************)
InertiaPoints == { << 0, 0 >>, << 60, 0 >>, << -60, 40 >>, << 1, 0 >> }

\* The gesture has ended and the pointer is up.
Released == ~isDragging /\ gesture.kind \in { "click", "drag" }

InertiaDown ==
    /\ gesture.n = 0
    /\ \E p \in InertiaPoints : handleMouseDown(p[1], p[2])
    /\ UNCHANGED fbVars

InertiaMove ==
    /\ isDragging
    /\ gesture.n < MaxInertiaEvents - 1
    /\ \E p \in InertiaPoints : handleMouseMove(p[1], p[2])
    /\ UNCHANGED fbVars

InertiaUp ==
    /\ isDragging
    /\ \E p \in InertiaPoints : handleMouseUp(p[1], p[2], FALSE, {})
    /\ UNCHANGED fbVars

InertiaFrame ==
    /\ Released
    /\ frame < MaxInertiaFrames
    /\ render(100, AllVisible, {})
    /\ UNCHANGED fbVars

NextInertia ==
    \/ InertiaDown
    \/ InertiaMove
    \/ InertiaUp
    \/ InertiaFrame

SpecInertia == Init /\ [][NextInertia]_vars

SpecInertiaFair == SpecInertia /\ WF_vars(InertiaFrame)

(***************************************************************************)
(* SpecFallback: generateMockWarLog called twice with the same arguments.  *)
(***************************************************************************)
FallbackAllies == { << >>, << 3 >>, << 3, 1 >> }

FallbackStart ==
    /\ fbArgs = NoArgs
    /\ \E a \in Territories, b \in Territories, allies \in FallbackAllies :
          a # b /\ FallbackBegin(a, b, allies)
    /\ UNCHANGED << appVars, pointerVars, globeVars, lifeVars >>

FallbackRun ==
    /\ \E rnd \in SomeQuads : FallbackGenerate(rnd)
    /\ UNCHANGED << appVars, pointerVars, globeVars, lifeVars >>

NextFallback ==
    \/ FallbackStart
    \/ FallbackRun

SpecFallback == Init /\ [][NextFallback]_vars

----------------------------------------------------------------------------
\* SpecRadar: the stats widget.  The user clicks among all the named
\* territories and TacticalRadar recomputes its memo for the new selection.

RadarClick ==
    /\ Len(logs) < MaxRadarLogs
    /\ \E c \in 1..Len(NameTable) : handleCountrySelect(c)
    /\ radarData' = TacticalRadar(warState')
    /\ UNCHANGED << pointerVars, globeVars, fbArgs, fbReports, lifeVars >>

NextRadar == RadarClick

SpecRadar == Init /\ [][NextRadar]_vars

(***************************************************************************)
(* Properties.                                                             *)
(***************************************************************************)

\* The roles a territory holds in a selection.
HoldsNoRole(ws, c) == ws.aggressor # c /\ ws.defender # c /\ ~IsAlly(ws, c)

\* C1 -- Selection exclusivity: no territory id appears in more than one of
\* aggressor, defender and defenderAllies, after any sequence of resolved
\* clicks (standard or ally mode) and ally-mode toggles.
SelectionExclusive ==
    /\ warState.aggressor # None =>
          /\ warState.aggressor # warState.defender
          /\ ~IsAlly(warState, warState.aggressor)
    /\ warState.defender # None => ~IsAlly(warState, warState.defender)

\* C1 witness: all three roles are filled and an ally-mode click on the
\* aggressor has just been rejected.
SelectionExclusiveWitness ==
    /\ warState.aggressor # None
    /\ warState.defender # None
    /\ Len(warState.defenderAllies) > 0
    /\ Len(lastClicks) > 0
    /\ lastClicks[Len(lastClicks)].allyMode
    /\ lastClicks[Len(lastClicks)].country = warState.aggressor

\* The last two clicks were standard-mode clicks on the same territory, the
\* first made with the aggressor slot empty and the territory holding no role.
ToggledTwice ==
    /\ Len(lastClicks) = 2
    /\ lastClicks[1].country = lastClicks[2].country
    /\ ~lastClicks[1].allyMode /\ ~lastClicks[2].allyMode
    /\ lastClicks[1].before.aggressor = None
    /\ HoldsNoRole(lastClicks[1].before, lastClicks[1].country)

\* C6 -- Aggressor toggle: in standard mode, clicking A with the aggressor
\* slot empty and A holding no role sets aggressor = A; clicking A again
\* clears the slot, with defender and allies as before the first click.
AggressorToggle ==
    ToggledTwice =>
        /\ lastClicks[1].after.aggressor = lastClicks[1].country
        /\ lastClicks[2].before = lastClicks[1].after
        /\ lastClicks[2].after.aggressor = None
        /\ lastClicks[2].after.defender = lastClicks[1].before.defender
        /\ lastClicks[2].after.defenderAllies = lastClicks[1].before.defenderAllies
        /\ warState = lastClicks[2].after

\* C6 witness: the toggle was made while a defender and an ally were set.
AggressorToggleWitness ==
    /\ ToggledTwice
    /\ lastClicks[1].before.defender # None
    /\ Len(lastClicks[1].before.defenderAllies) > 0

FrameKeepsSelection ==
    [][ frame' = frame + 1 => warState' = warState ]_vars

\* C8 witness: a frame has drawn an active conflict that has an ally.
FrameKeepsSelectionWitness ==
    /\ frame > 0
    /\ Len(paths) > 1
    /\ ConflictActive(warState, isSimulating)
    /\ Len(warState.defenderAllies) > 0

\* C2 -- Tilt invariant: after every frame the tilt angle is within
\* [-45, 45] degrees, in every interaction state including Dragging.
TiltClampedEveryFrame ==
    [][ frame' = frame + 1 =>
          (rotation'[2] >= -TILT_LIMIT /\ rotation'[2] <= TILT_LIMIT) ]_vars

\* C3 -- Marker progress wraps: the progress stored in every marker stays
\* in [0, 1.5).
MarkerProgressWrapped ==
    \A i \in MissileIds : missiles[i].t >= 0 /\ missiles[i].t < CYCLE_LENGTH

\* The squared pixel distance between two positions.
Dist2(a, b) == (b[1] - a[1]) * (b[1] - a[1]) + (b[2] - a[2]) * (b[2] - a[2])

\* C4 -- Click/drag disambiguation: a pointer-down / pointer-up pair is a
\* click exactly when the Euclidean distance between the two positions is
\* strictly below 15 pixels (14 a click, 15 and 16 drags), whatever pointer
\* moves came in between.
ClickIffUnderThreshold ==
    gesture.kind \in { "click", "drag" } =>
        /\ gesture.kind = "click" <=> Dist2(gesture.down, gesture.up) < 225
        /\ Dist2(gesture.down, gesture.up) = 196 => gesture.kind = "click"
        /\ Dist2(gesture.down, gesture.up) \in { 225, 256 } => gesture.kind = "drag"

\* C4 witness: a gesture that went down and up 14 pixels apart, with two
\* pointer moves in between, was classified as a click.
ClickIffUnderThresholdWitness ==
    /\ gesture.kind = "click"
    /\ gesture.moves = 2
    /\ Dist2(gesture.down, gesture.up) = 196

\* n / d rounded up, for positive d.
CeilDiv(n, d) == (n + d - 1) \div d

\* C7 -- Particle lifecycle: a particle created with life 1.0 that has seen
\* only frames of one fixed step dt is out of the pool once
\* ceil(1 / (1.5 * dt)) frames have been rendered since its creation (the
\* frame that created it included).
ParticleGoneAfterLifetime ==
    \A k \in 1..Len(particles) :
        (dtRun.dt > 0 /\ dtRun.since <= particles[k].born) =>
            frame - particles[k].born + 1
                < CeilDiv(FULL_LIFE, DECAY_PER_MS * dtRun.dt)

SimulationAlwaysNarrates ==
    simCall.state = "settled" =>
        /\ simCall.result.status = "resolved"
        /\ simCall.result.value # << >>
        /\ (simCall.api.kind = "throw" \/ simCall.api.text = << >>) =>
              /\ simCall.result.value[1]
                    = <<"*** SIMULATION REPORT (OFFLINE PROTOCOL) ***">>
              /\ simCall.result.value[2]
                    = <<"SCENARIO", simCall.nameA, simCall.nameB, simCall.allies>>
        /\ (simCall.api.kind = "text" /\ simCall.api.text # << >>) =>
              simCall.result.value = simCall.api.text

\* C10 witness: the endpoint threw for a conflict with an ally and the
\* simulation ended with the offline report.
SimulationAlwaysNarratesWitness ==
    /\ simCall.state = "settled"
    /\ simCall.api.kind = "throw"
    /\ simCall.allies # << >>
    /\ ~isSimulating
    /\ logs[Len(logs)].type = "COMBAT"

\* C11 -- Teardown: once the cleanup of HoloGlobe has run, no frame request
\* is pending, none of its three pointer listeners is registered, and no
\* later step renders a frame, changes rotation or velocity, or invokes the
\* selection callback.
TeardownIsFinal ==
    [][ /\ phase' = "torn down" =>
              /\ pendingFrames' = {}
              /\ listeners' \cap GLOBE_LISTENERS = {}
        /\ phase = "torn down" =>
              /\ frame' = frame
              /\ rotation' = rotation
              /\ velocity' = velocity
              /\ isDragging' = isDragging
              /\ warState' = warState
              /\ lastClicks' = lastClicks
              /\ logs' = logs ]_vars

\* C11 witness: the cleanup ran on a loop that had rendered callback frames
\* and on listeners that had delivered a click to the selection callback,
\* in the middle of a later gesture.
TeardownIsFinalWitness ==
    /\ phase = "torn down"
    /\ frame >= 2
    /\ lastClicks # << >>
    /\ isDragging
    /\ animationId = frame

\* C12 -- Geometry gating: the fetch is issued exactly once; no frame is
\* rendered, no frame request made and no pointer listener registered
\* unless the fetch has succeeded; if it fails the failure is logged once,
\* and nothing is rendered, requested or registered and no other fetch is
\* issued afterwards.
GeometryGate ==
    /\ fetchCalls = (IF phase = "unmounted" THEN 0 ELSE 1)
    /\ (frame > 0 \/ animationId # None \/ pendingFrames # {} \/ listeners # {})
          => (fetchState = "fulfilled" /\ worldData)
    /\ consoleErrors = (IF fetchState = "rejected" THEN 1 ELSE 0)
    /\ fetchState = "rejected" =>
          /\ ~worldData
          /\ frame = 0
          /\ animationId = None
          /\ pendingFrames = {}
          /\ listeners = {}
          /\ gesture.n = 0

\* C12 witness: the fetch failed and the component stays mounted with the
\* failure logged.
GeometryGateWitness ==
    /\ phase = "mounted"
    /\ fetchState = "rejected"
    /\ consoleErrors = 1

\* C13 -- The selection callback runs only in a pointer-up that ends a
\* gesture begun by a pointer-down on the canvas, with the up position less
\* than 15 pixels from the down position and the inverted point inside some
\* territory; a pointer-up that ends a drag or misses every territory
\* leaves the App state as it was.
CallbackOnlyOnResolvedClick ==
    [][ /\ (logs' # logs \/ warState' # warState \/ lastClicks' # lastClicks
              \/ isSelectingAlly' # isSelectingAlly) =>
              /\ isDragging /\ ~isDragging'
              /\ gesture.kind = "down"
              /\ gesture'.kind = "click"
              /\ gesture'.n = gesture.n + 1
              /\ gesture'.down = gesture.down
              /\ startDrag = gesture.down
              /\ Dist2(gesture'.down, gesture'.up) < CLICK_THRESHOLD * CLICK_THRESHOLD
              /\ gesture'.inverted
              /\ gesture'.hit \in gesture'.containing
        /\ (/\ gesture'.n = gesture.n + 1
            /\ \/ gesture'.kind = "drag"
               \/ gesture'.kind = "click" /\ gesture'.hit = None) =>
              UNCHANGED appVars ]_vars

\* C13 witness: after a click that made a territory the aggressor, a second
\* click inverted to a point in no territory and the aggressor is still set.
CallbackOnlyOnResolvedClickWitness ==
    /\ gesture.kind = "click"
    /\ gesture.inverted
    /\ gesture.containing = {}
    /\ gesture.n = 4
    /\ warState.aggressor # None
    /\ Len(logs) = Len(INITIAL_LOGS) + 1

\* C14 -- When a click resolves, the selection callback is invoked exactly
\* once, with the first territory in dataset order among those whose polygon
\* contains the inverted point.
FirstMatchSelected ==
    [][ (/\ gesture'.n = gesture.n + 1
         /\ gesture'.kind = "click"
         /\ gesture'.inverted
         /\ gesture'.containing # {}) =>
            /\ gesture'.hit \in gesture'.containing
            /\ \A d \in gesture'.containing : gesture'.hit <= d
            /\ Len(logs') = Len(logs) + 1
            /\ logs'[Len(logs')] = SelectResult(warState, isSelectingAlly, gesture'.hit).log
            /\ warState' = SelectResult(warState, isSelectingAlly, gesture'.hit).ws
            /\ lastClicks'[Len(lastClicks')].country = gesture'.hit
            /\ lastClicks'[Len(lastClicks')].before = warState ]_vars

\* C14 witness: a click on a point inside every territory but the first
\* made territory 2 the aggressor.
FirstMatchSelectedWitness ==
    /\ gesture.kind = "click"
    /\ gesture.containing = 2..NumTerritories
    /\ Cardinality(gesture.containing) > 1
    /\ gesture.hit = 2
    /\ warState.aggressor = 2
    /\ lastClicks[Len(lastClicks)].country = 2

\* The loss of life of the particle object pid over a step, 0 if it is in
\* the pool on neither side; a particle pushed in the step starts at 1.0.
LifeBefore(pid) ==
    IF \E k \in 1..Len(particles) : particles[k].id = pid
    THEN particles[CHOOSE k \in 1..Len(particles) : particles[k].id = pid].life
    ELSE FULL_LIFE

\* C15 -- The dt of a frame never exceeds 0.1 s whatever the wall-clock gap
\* since the previous frame: it is min(gap, 0.1 s), no marker advances by
\* more than speed * 0.1 and no particle loses more than 0.15 of life in
\* one frame.
DtCapped ==
    [][ frame' = frame + 1 =>
          /\ dtRun'.dt <= MAX_DT_MS
          /\ dtRun'.dt = Min(dtRun'.gap, MAX_DT_MS)
          /\ \A i \in MissileIds :
                missiles'[i].t - missiles[i].t <= missiles[i].speed * MAX_DT_MS
          /\ \A k \in 1..Len(particles') :
                LifeBefore(particles'[k].id) - particles'[k].life
                    <= (15 * FULL_LIFE) \div 100 ]_vars

\* C15 witness: a frame came 250 ms after the previous one while the
\* conflict was drawn and a particle was in the pool; its dt was 0.1 s.
DtCappedWitness ==
    /\ dtRun.gap = 250
    /\ dtRun.dt = MAX_DT_MS
    /\ ConflictActive(warState, isSimulating)
    /\ Len(paths) > 0
    /\ Len(particles) > 0
    /\ particles[1].life < FULL_LIFE - (15 * FULL_LIFE) \div 100

\* C16 -- The marker pool has exactly 20 entries in every frame, the same
\* marker objects throughout, and in every frame with n >= 1 active paths
\* the marker at pool index i follows path i mod n, n being one plus the
\* number of allies of the selection in that frame.
MarkersRoundRobin ==
    [][ frame' = frame + 1 =>
          /\ DOMAIN missiles' = MissileIds
          /\ Cardinality(DOMAIN missiles') = 20
          /\ \A i \in MissileIds :
                /\ missiles'[i].id = i
                /\ missiles'[i].speed = missiles[i].speed
                /\ missiles'[i].offset = missiles[i].offset
          /\ ConflictActive(warState, isSimulating) =>
                /\ Len(paths') = 1 + Len(warState.defenderAllies)
                /\ \A i \in MissileIds :
                      drawn'[i].path - 1 = i % Len(paths') ]_vars

\* C16 witness: a marker that pushed a particle from a counter-attack path
\* was drawn, after the ally left, on the aggression path.
MarkersRoundRobinWitness ==
    /\ Len(paths) = 1
    /\ \E k \in 1..Len(particles) :
          /\ particles[k].color = "#22d3ee"
          /\ drawn[particles[k].by].path = 1
          /\ drawn[particles[k].by].shown

\* The particles pushed by marker i in the frame just rendered.
BornBy(i, pool, f) ==
    { k \in 1..Len(pool) : pool[k].by = i /\ pool[k].born = f }

\* C17 -- Gap phase: in a frame where a marker's cycle progress (progress
\* plus phase offset, modulo 1.5) is greater than 1, that marker is not
\* drawn and pushes no particle.
GapPhaseIdle ==
    [][ (frame' = frame + 1 /\ ConflictActive(warState, isSimulating)) =>
          \A i \in MissileIds :
             (missiles'[i].t + missiles'[i].offset) % CYCLE_LENGTH > CYCLE_VISIBLE =>
                /\ ~drawn'[i].shown
                /\ ~drawn'[i].spawned
                /\ BornBy(i, particles', frame') = {} ]_vars

\* C17 witness: in one frame a marker in view was in its gap phase while
\* another marker pushed a particle.
GapPhaseIdleWitness ==
    /\ \E i \in MissileIds : drawn[i].inView /\ drawn[i].cycleT > CYCLE_VISIBLE
    /\ \E j \in MissileIds : drawn[j].spawned /\ BornBy(j, particles, frame) # {}

\* C18 -- A particle is added to the pool in a frame only by a marker whose
\* cycle progress in that frame is above 0.95 and at most 1 and whose
\* projected position is in view; a marker adds at most one particle per
\* frame, created with life 1.0 (and decayed once by that same frame) at the
\* end point of the path the marker is on.
SpawnOnlyNearEnd ==
    [][ (frame' = frame + 1 /\ ConflictActive(warState, isSimulating)) =>
          /\ Len(particles') <= Len(particles) + NUM_MISSILES
          /\ \A k \in 1..Len(particles') :
                particles'[k].born = frame' =>
                   LET i == particles'[k].by IN
                   /\ drawn'[i].cycleT > SPAWN_AFTER
                   /\ drawn'[i].cycleT <= CYCLE_VISIBLE
                   /\ drawn'[i].inView
                   /\ drawn'[i].shown
                   /\ BornBy(i, particles', frame') = { k }
                   /\ particles'[k].maxLife = FULL_LIFE
                   /\ particles'[k].life = FULL_LIFE - DECAY_PER_MS * dtRun'.dt
                   /\ particles'[k].at = paths'[drawn'[i].path].end
          /\ \A k \in 1..Len(particles') :
                particles'[k].born # frame' =>
                   \E j \in 1..Len(particles) : particles[j].id = particles'[k].id ]_vars

\* C18 witness: in one frame a marker near the end of its path but out of
\* view pushed nothing while a marker in view pushed a particle, which is in
\* the pool at the end of that marker's path.
SpawnOnlyNearEndWitness ==
    /\ \E i \in MissileIds :
          /\ ~drawn[i].inView
          /\ drawn[i].cycleT > SPAWN_AFTER
          /\ drawn[i].cycleT <= CYCLE_VISIBLE
          /\ ~drawn[i].spawned
    /\ \E k \in 1..Len(particles) :
          /\ particles[k].born = frame
          /\ particles[k].at = paths[drawn[particles[k].by].path].end
          /\ drawn[particles[k].by].inView
          /\ drawn[particles[k].by].spawned

\* C19 -- Every particle in the pool has its life decremented in every
\* frame (or is removed by that frame), whether or not a conflict is being
\* drawn, so that continued frames remove every particle.
ParticlesDecayEveryFrame ==
    [][ frame' = frame + 1 =>
          \A k \in 1..Len(particles) :
             \A j \in 1..Len(particles') :
                particles'[j].id = particles[k].id =>
                   particles'[j].life < particles[k].life ]_vars

\* The step is a handled pointer-down / a handled pointer-move of a drag.
IsPointerDown ==
    gesture'.n = gesture.n + 1 /\ gesture'.kind = "down" /\ gesture'.moves = 0
IsPointerMove ==
    gesture'.n = gesture.n + 1 /\ gesture'.kind = "down" /\ gesture'.moves > 0

\* C20 -- Pointer-down on the canvas enters Dragging and sets both velocity
\* components to zero; while Dragging a frame changes neither rotation nor
\* velocity, and rotation changes only by a pointer-move, which adds
\* 0.5*dx to spin, subtracts 0.5*dy from tilt and sets velocity to
\* (0.5*dx, -0.5*dy); besides a pointer-move only a further pointer-down
\* changes velocity, to zero.
DragDrivesRotation ==
    [][ /\ IsPointerDown =>
              /\ isDragging'
              /\ velocity' = << 0, 0 >>
              /\ rotation' = rotation
        /\ (isDragging /\ frame' = frame + 1) =>
              /\ rotation' = rotation
              /\ velocity' = velocity
        /\ (isDragging /\ IsPointerMove) =>
              LET dx == lastMouse'[1] - lastMouse[1]
                  dy == lastMouse'[2] - lastMouse[2]
              IN /\ rotation'[1] = rotation[1] + (dx * 10000) \div 2
                 /\ rotation'[2] = rotation[2] - (dy * 10000) \div 2
                 /\ velocity' = << (dx * 10000) \div 2, -((dy * 10000) \div 2) >>
        /\ (isDragging /\ rotation' # rotation) => IsPointerMove
        /\ (isDragging /\ velocity' # velocity) => (IsPointerMove \/ IsPointerDown) ]_vars

\* C20 witness: still dragging after a move of 60 pixels straight down, with
\* two frames rendered during the drag: spin is where the load left it,
\* tilt is 30 degrees lower and velocity is the last delta.
DragDrivesRotationWitness ==
    /\ isDragging
    /\ gesture.moves > 0
    /\ frame = 3
    /\ rotation = << NextRotation(INITIAL_ROTATION, INITIAL_VELOCITY, FALSE)[1],
                     INITIAL_ROTATION[2] - 300000 >>
    /\ velocity = << 0, -300000 >>

\* The spin velocity is in the open interval (0, 0.05).
IdleSpin == velocity[1] > 0 /\ velocity[1] < IDLE_SPEED

\* C21 -- Inertial decay to idle: after the pointer-up, with no further
\* input, each frame multiplies both velocity components by 0.92 (the spin
\* component then being blended toward the idle rate when below 0.05), a
\* spin velocity in (0, 0.05) stays there, and whatever velocity the gesture
\* recorded the spin velocity eventually is in (0, 0.05) for good.
InertiaReturnsToIdle ==
    /\ [][ (Released /\ frame' = frame + 1) =>
              /\ velocity'[2] = TruncDiv(velocity[2] * 92, 100)
              /\ Abs(TruncDiv(velocity[1] * 92, 100)) >= IDLE_SPEED =>
                    velocity'[1] = TruncDiv(velocity[1] * 92, 100)
              /\ Abs(velocity'[1]) <= Max(Abs(velocity[1]), IDLE_SPEED)
              /\ IdleSpin => IdleSpin' ]_vars
    /\ [](Released => <>[]IdleSpin)

\* C21 witness: a drag released with a spin velocity of -30 degrees per
\* frame; the globe turned backwards and now spins slowly forwards.
InertiaReturnsToIdleWitness ==
    /\ Released
    /\ gesture.moves = 1
    /\ lastMouse[1] - startDrag[1] = -60
    /\ rotation[1] < INITIAL_ROTATION[1] - 3000000
    /\ IdleSpin

\* A sequence without repeated elements.
NoDuplicates(q) == \A i, j \in 1..Len(q) : q[i] = q[j] => i = j

\* q without its i-th element.
WithoutIndex(q, i) == SubSeq(q, 1, i - 1) \o SubSeq(q, i + 1, Len(q))

\* C22 -- The ally list never contains duplicates and is in join order: an
\* accepted ally-mode click appends the territory at the end, and a
\* standard-mode click on an ally removes that one entry and keeps the
\* others in their order.
AlliesInJoinOrder ==
    /\ NoDuplicates(warState.defenderAllies)
    /\ lastClicks # << >> =>
          LET e == lastClicks[Len(lastClicks)]
              old == e.before.defenderAllies
          IN /\ warState = e.after
             /\ (e.allyMode /\ HoldsNoRole(e.before, e.country)) =>
                   e.after.defenderAllies = Append(old, e.country)
             /\ (~e.allyMode /\ IsAlly(e.before, e.country)) =>
                   \E i \in 1..Len(old) :
                      /\ old[i] = e.country
                      /\ e.after.defenderAllies = WithoutIndex(old, i)

\* C22 witness: the first of three allies has just been removed by a
\* standard-mode click and the other two are left in their order.
AlliesInJoinOrderWitness ==
    /\ lastClicks # << >>
    /\ ~lastClicks[Len(lastClicks)].allyMode
    /\ Len(lastClicks[Len(lastClicks)].before.defenderAllies) = 3
    /\ lastClicks[Len(lastClicks)].country
          = lastClicks[Len(lastClicks)].before.defenderAllies[1]
    /\ Len(warState.defenderAllies) = 2

\* The step is a call of handleCountrySelect: every call adds one log entry.
IsSelectCall == Len(logs') = Len(logs) + 1 /\ lastClicks' # << >>

\* C23 -- In ally-selection mode a click on the aggressor, the defender or
\* an ally is rejected: the selection is unchanged, one WARNING entry is
\* added and the mode stays on.  A click on any other territory appends it
\* to the allies and turns the mode off.
AllyModeClickResolved ==
    [][ (isSelectingAlly /\ IsSelectCall) =>
          LET c == lastClicks'[Len(lastClicks')].country IN
          /\ SubSeq(logs', 1, Len(logs)) = logs
          /\ IF HoldsNoRole(warState, c)
             THEN /\ warState' = [warState EXCEPT !.defenderAllies = Append(@, c)]
                  /\ ~isSelectingAlly'
             ELSE /\ warState' = warState
                  /\ logs'[Len(logs')].type = "WARNING"
                  /\ isSelectingAlly' ]_vars

\* C23 witness: ally-selection mode is still on after a click on the
\* defender was rejected with a warning, the coalition being non-empty.
AllyModeClickResolvedWitness ==
    /\ isSelectingAlly
    /\ lastClicks # << >>
    /\ lastClicks[Len(lastClicks)].allyMode
    /\ lastClicks[Len(lastClicks)].country = warState.defender
    /\ lastClicks[Len(lastClicks)].after = lastClicks[Len(lastClicks)].before
    /\ warState.defenderAllies # << >>
    /\ logs[Len(logs)].type = "WARNING"

\* C24 -- In standard mode a click on a territory that holds no role makes
\* it the aggressor and clears defender and allies when both factions are
\* set; otherwise it fills the aggressor slot if that is empty, else the
\* defender slot, and changes no other slot.
FillOrReset ==
    lastClicks # << >> =>
       LET e == lastClicks[Len(lastClicks)]
           old == e.before
       IN (~e.allyMode /\ HoldsNoRole(old, e.country)) =>
             /\ warState = e.after
             /\ (old.aggressor # None /\ old.defender # None) =>
                   e.after = [aggressor |-> e.country, defender |-> None,
                              defenderAllies |-> << >>]
             /\ old.aggressor = None =>
                   e.after = [old EXCEPT !.aggressor = e.country]
             /\ (old.aggressor # None /\ old.defender = None) =>
                   e.after = [old EXCEPT !.defender = e.country]

\* C24 witness: with both factions and two allies set, a click on a fifth
\* territory has reset the selection.
FillOrResetWitness ==
    /\ lastClicks # << >>
    /\ ~lastClicks[Len(lastClicks)].allyMode
    /\ lastClicks[Len(lastClicks)].before.aggressor # None
    /\ lastClicks[Len(lastClicks)].before.defender # None
    /\ Len(lastClicks[Len(lastClicks)].before.defenderAllies) = 2
    /\ HoldsNoRole(lastClicks[Len(lastClicks)].before,
                   lastClicks[Len(lastClicks)].country)
    /\ warState.aggressor = lastClicks[Len(lastClicks)].country
    /\ warState.defender = None

\* C25 -- In standard mode a click on the defender clears the defender and
\* the allies and leaves the aggressor; a click on the aggressor clears the
\* aggressor and leaves the defender and the allies.
DeselectFrames ==
    \A k \in 1..Len(lastClicks) :
       LET e == lastClicks[k]
           old == e.before
       IN ~e.allyMode =>
             /\ e.country = old.aggressor =>
                   e.after = [old EXCEPT !.aggressor = None]
             /\ (e.country = old.defender /\ e.country # old.aggressor) =>
                   e.after = [old EXCEPT !.defender = None,
                                         !.defenderAllies = << >>]

\* C25 witness: the aggressor was deselected and the allies stayed, then
\* the defender was deselected and the allies went.
DeselectFramesWitness ==
    /\ Len(lastClicks) = 2
    /\ ~lastClicks[1].allyMode /\ ~lastClicks[2].allyMode
    /\ lastClicks[1].country = lastClicks[1].before.aggressor
    /\ lastClicks[1].after.defenderAllies # << >>
    /\ lastClicks[2].before = lastClicks[1].after
    /\ lastClicks[2].country = lastClicks[2].before.defender
    /\ warState = InitialWarState

\* C26 -- Whenever the ally list is non-empty a defender is set: allies are
\* added only while a defender exists, and a step that clears the defender
\* also clears the allies.
AlliesNeedDefender ==
    /\ warState.defenderAllies # << >> => warState.defender # None
    /\ isSelectingAlly => warState.defender # None
    /\ \A k \in 1..Len(lastClicks) :
          /\ lastClicks[k].after.defenderAllies # lastClicks[k].before.defenderAllies
                /\ lastClicks[k].after.defenderAllies # << >>
                => lastClicks[k].before.defender # None
          /\ lastClicks[k].after.defender = None
                => lastClicks[k].after.defenderAllies = << >>

\* C26 witness: an ally has joined a defender that faces no aggressor.
AlliesNeedDefenderWitness ==
    /\ lastClicks # << >>
    /\ lastClicks[Len(lastClicks)].allyMode
    /\ lastClicks[Len(lastClicks)].before.aggressor = None
    /\ lastClicks[Len(lastClicks)].after # lastClicks[Len(lastClicks)].before
    /\ warState.defender # None
    /\ warState.defenderAllies # << >>

\* The step is the start of triggerWarSimulation: it alone adds two entries.
IsSimulationStart == Len(logs') = Len(logs) + 2

\* The step is the completion of a simulation.
IsSimulationEnd == simCall.state = "pending" /\ simCall'.state = "settled"

\* C27 -- A simulation starts only when both factions are set and none is
\* running, so at most one is in flight; every started simulation ends
\* with isSimulating false again, whether the endpoint answers or fails and
\* whatever clicks come meanwhile.
OneSimulationAtATime ==
    /\ [][ /\ IsSimulationStart =>
                 /\ ~isSimulating /\ simCall.state # "pending"
                 /\ warState.aggressor # None /\ warState.defender # None
                 /\ isSimulating' /\ simCall'.state = "pending"
           /\ IsSimulationEnd => (isSimulating /\ ~isSimulating') ]_vars
    /\ [](isSimulating <=> simCall.state = "pending")
    /\ [](isSimulating => <>(~isSimulating))

\* C27 witness: the endpoint failed on a simulation during which the
\* aggressor was deselected, and isSimulating is false again.
OneSimulationAtATimeWitness ==
    /\ simCall.state = "settled"
    /\ simCall.api.kind = "throw"
    /\ warState.aggressor = None
    /\ ~isSimulating

\* The entries of the log that open a simulation.
Openings(q) == { i \in 1..Len(q) : q[i].message[1] = "INITIATING WAR SIMULATION" }

\* The entries of the log that close a simulation.
Closings(q) == { i \in 1..Len(q) : q[i].type = "COMBAT" }

\* C28 -- The log is append-only.  A started simulation adds a WARNING and
\* then an INFO entry at its start and exactly one COMBAT entry when it
\* completes; the names it works on are those of the selection at the
\* start, even if the selection changed while it ran.
SimulationLogged ==
    /\ [][ /\ Len(logs') >= Len(logs)
           /\ SubSeq(logs', 1, Len(logs)) = logs
           /\ IsSimulationStart =>
                 /\ logs'[Len(logs) + 1] =
                       [type |-> "WARNING",
                        message |-> << "INITIATING WAR SIMULATION",
                                       CountryName(warState.aggressor),
                                       CountryName(warState.defender),
                                       Len(warState.defenderAllies) >>]
                 /\ logs'[Len(logs) + 2].type = "INFO"
                 /\ simCall'.nameA = CountryName(warState.aggressor)
                 /\ simCall'.nameB = CountryName(warState.defender)
                 /\ simCall'.allies = AllyNames(warState.defenderAllies)
           /\ IsSimulationEnd =>
                 /\ Len(logs') = Len(logs) + 1
                 /\ logs'[Len(logs')].type = "COMBAT"
                 /\ \/ logs'[Len(logs')].message = AiText
                    \/ logs'[Len(logs')].message[2] =
                         << "SCENARIO", simCall.nameA, simCall.nameB, simCall.allies >>
           /\ (~IsSimulationEnd) => Closings(logs') = Closings(logs) ]_vars
    /\ [](Cardinality(Openings(logs))
           = Cardinality(Closings(logs)) + (IF isSimulating THEN 1 ELSE 0))

\* C28 witness: a simulation with an ally has completed offline after a
\* click cleared the defender and the allies, and its entry names the
\* factions and the ally of its start; the click is logged between its INFO
\* and its COMBAT.
SimulationLoggedWitness ==
    /\ simCall.state = "settled"
    /\ simCall.allies # << >>
    /\ warState.defender = None /\ warState.defenderAllies = << >>
    /\ logs[Len(logs)].type = "COMBAT"
    /\ logs[Len(logs)].message # AiText
    /\ logs[Len(logs)].message[2]
         = << "SCENARIO", simCall.nameA, simCall.nameB, simCall.allies >>
    /\ logs[Len(logs) - 1].message[1] = "Faction B deselected"

\* The stats of one territory are in the range of the widget.
StatsInRange(st) ==
    /\ \A v \in { st.infantry, st.armor, st.air, st.cyber, st.logistics, st.intel } :
          v >= 40 /\ v <= 99
    /\ st.techLevel >= 1 /\ st.techLevel <= 10

\* C29 -- For every territory name the stats derived from its hash are in
\* range: infantry, armor, air, cyber, logistics and intel in [40, 99] and
\* techLevel in [1, 10], also for a name whose hash is the minimum int32.
CountryStatsInRange ==
    /\ \A i \in 1..Len(radarData.statsA) : StatsInRange(radarData.statsA[i])
    /\ \A i \in 1..Len(radarData.statsB) : StatsInRange(radarData.statsB[i])

====
